---- MODULE Spec2Model ----
(***************************************************************************)
(* Model of src/Home.py, the Streamlit script "GeoJSON vs. CSV Point       *)
(* Analyzer".  Streamlit re-executes the whole script after every widget   *)
(* interaction; one action of this module is one interaction followed by   *)
(* the complete re-execution of the script.                                *)
(*                                                                         *)
(* Text is a sequence of one-character strings.  A float is a record       *)
(* [kind, v]: kind "num" carries the value in fixed point (v = value *     *)
(* Scale), kind "nan" is NaN, kind "inf" is +/-infinity with v its sign.   *)
(***************************************************************************)
EXTENDS Integers, Sequences, FiniteSets, TLC

(* Fixed-point resolution: number of decimal digits a "num" keeps. *)
FracDigits == 4

RECURSIVE Pow10(_)
Pow10(n) == IF n = 0 THEN 1 ELSE 10 * Pow10(n - 1)

Scale == Pow10(FracDigits)

(* ---------------------------------------------------------------------- *)
(* Text helpers (str.strip, str.replace, str.split as used by the script   *)
(* and by the delimited-text reader).                                      *)
(* ---------------------------------------------------------------------- *)

Whitespace == {" ", "\t"}

Digits == {"0", "1", "2", "3", "4", "5", "6", "7", "8", "9"}

DigitVal(c) ==
  CASE c = "0" -> 0 [] c = "1" -> 1 [] c = "2" -> 2 [] c = "3" -> 3
    [] c = "4" -> 4 [] c = "5" -> 5 [] c = "6" -> 6 [] c = "7" -> 7
    [] c = "8" -> 8 [] c = "9" -> 9

RECURSIVE LStrip(_)
LStrip(s) ==
  IF s # <<>> /\ Head(s) \in Whitespace THEN LStrip(Tail(s)) ELSE s

RECURSIVE RStrip(_)
RStrip(s) ==
  IF s # <<>> /\ s[Len(s)] \in Whitespace
  THEN RStrip(SubSeq(s, 1, Len(s) - 1))
  ELSE s

(* str.strip() *)
Strip(s) == RStrip(LStrip(s))

(* str.replace(old, new) for one-character old and new *)
Replace(s, old, new) == [i \in 1..Len(s) |-> IF s[i] = old THEN new ELSE s[i]]

(* Position of the first occurrence of c in s, or 0 *)
RECURSIVE FindFrom(_, _, _)
FindFrom(s, c, i) ==
  IF i > Len(s) THEN 0 ELSE IF s[i] = c THEN i ELSE FindFrom(s, c, i + 1)

Find(s, c) == FindFrom(s, c, 1)

(* Split a line on a one-character separator: "a;b;" -> <<"a", "b", "">> *)
RECURSIVE Split(_, _)
Split(s, c) ==
  LET p == Find(s, c)
  IN  IF p = 0 THEN <<s>>
      ELSE <<SubSeq(s, 1, p - 1)>> \o Split(SubSeq(s, p + 1, Len(s)), c)

(* ---------------------------------------------------------------------- *)
(* Floats                                                                  *)
(* ---------------------------------------------------------------------- *)

NaN == [kind |-> "nan", v |-> 0]

(* The outcome of float(s) raising ValueError *)
ValueError == [kind |-> "error", v |-> 0]

Inf(sign) == [kind |-> "inf", v |-> sign]

Num(n) == [kind |-> "num", v |-> n]

AllDigits(s) == \A i \in 1..Len(s) : s[i] \in Digits

RECURSIVE DigitsValue(_)
DigitsValue(s) ==
  IF s = <<>> THEN 0
  ELSE 10 * DigitsValue(SubSeq(s, 1, Len(s) - 1)) + DigitVal(s[Len(s)])

(* The fraction digits as a multiple of 1/Scale (digits past FracDigits   *)
(* are below the resolution of the fixed-point representation).           *)
FracValue(s) ==
  IF Len(s) >= FracDigits
  THEN DigitsValue(SubSeq(s, 1, FracDigits))
  ELSE DigitsValue(s) * Pow10(FracDigits - Len(s))

Lower(c) ==
  CASE c = "N" -> "n" [] c = "A" -> "a" [] c = "I" -> "i" [] c = "F" -> "f"
    [] OTHER -> c

(* float(s) for an unsigned literal.                                       *)
(* Accepted: digits, digits "." [digits], "." digits, and the words nan,  *)
(* inf, infinity in any letter case.                                      *)
ParseUnsigned(s) ==
  LET w == [i \in 1..Len(s) |-> Lower(s[i])]
      p == Find(s, ".")
      ip == IF p = 0 THEN s ELSE SubSeq(s, 1, p - 1)
      fp == IF p = 0 THEN <<>> ELSE SubSeq(s, p + 1, Len(s))
  IN  IF w = <<"n", "a", "n">> THEN NaN
      ELSE IF w = <<"i", "n", "f">>
              \/ w = <<"i", "n", "f", "i", "n", "i", "t", "y">> THEN Inf(1)
      ELSE IF AllDigits(ip) /\ AllDigits(fp) /\ Len(ip) + Len(fp) > 0
      THEN Num(DigitsValue(ip) * Scale + FracValue(fp))
      ELSE ValueError

Negate(f) == IF f.kind \in {"nan", "error"} THEN f ELSE [f EXCEPT !.v = 0 - f.v]

(* float(s): optional sign, then an unsigned literal *)
ParseFloat(s) ==
  IF s = <<>> THEN ValueError
  ELSE IF Head(s) = "-" THEN Negate(ParseUnsigned(Tail(s)))
  ELSE IF Head(s) = "+" THEN ParseUnsigned(Tail(s))
  ELSE ParseUnsigned(s)

(* ---------------------------------------------------------------------- *)
(* Uploaded files                                                          *)
(* ---------------------------------------------------------------------- *)

(* A missing value of the data frame (pandas NaN in a str column) *)
NA == <<"<NA>">>

(* Field texts the delimited-text reader turns into a missing value *)
NaTexts ==
  { <<>>, <<"N", "/", "A">>, <<"N", "A">>, <<"N", "a", "N">>, <<"n", "a", "n">> }

(* The end-to-end scenario of the specification, comma separated:         *)
(*   x,y / 0,0 / abc,abc / 200,0 / 10,20 / 10.5,20.5                       *)
CsvScenario ==
  << <<"x", ",", "y">>,
     <<"0", ",", "0">>,
     <<"a", "b", "c", ",", "a", "b", "c">>,
     <<"2", "0", "0", ",", "0">>,
     <<"1", "0", ",", "2", "0">>,
     <<"1", "0", ".", "5", ",", "2", "0", ".", "5">> >>

(* A semicolon separated file with decimal commas:                        *)
(*   lon;lat,n / 45,123;-90 / 0;0,0 / " 180 ;90,0" / 180,0001;0 /          *)
(*   N/A;1,5 / 11;20,5 / -0;0,0 / inf;1,0 / -180;-90,0 / 0;45,5 /          *)
(*   " ;2,5" / ;3,5 / 10,5;20,5                                            *)
CsvDecimalComma ==
  << <<"l", "o", "n", ";", "l", "a", "t", ",", "n">>,
     <<"4", "5", ",", "1", "2", "3", ";", "-", "9", "0">>,
     <<"0", ";", "0", ",", "0">>,
     <<" ", "1", "8", "0", " ", ";", "9", "0", ",", "0">>,
     <<"1", "8", "0", ",", "0", "0", "0", "1", ";", "0">>,
     <<"N", "/", "A", ";", "1", ",", "5">>,
     <<"1", "1", ";", "2", "0", ",", "5">>,
     <<"-", "0", ";", "0", ",", "0">>,
     <<"i", "n", "f", ";", "1", ",", "0">>,
     <<"-", "1", "8", "0", ";", "-", "9", "0", ",", "0">>,
     <<"0", ";", "4", "5", ",", "5">>,
     <<" ", ";", "2", ",", "5">>,
     <<";", "3", ",", "5">>,
     <<"1", "0", ",", "5", ";", "2", "0", ",", "5">> >>

(* A header line and no record *)
CsvHeaderOnly == << <<"a">> >>

(* A file with no content at all *)
CsvEmpty == <<>>

(* The uploaded record files of the model, by name.  Under every         *)
(* separator of the model each line of a file has as many fields as its   *)
(* header line.                                                           *)
CsvFiles == {"scenario.csv", "decimal_comma.csv", "header_only.csv", "empty.csv"}

CsvContent(name) ==
  CASE name = "scenario.csv" -> CsvScenario
    [] name = "decimal_comma.csv" -> CsvDecimalComma
    [] name = "header_only.csv" -> CsvHeaderOnly
    [] name = "empty.csv" -> CsvEmpty

(* A geometry is an axis-parallel rectangle (a Polygon with one ring) in  *)
(* fixed point, or the null geometry.                                     *)
Rect(x0, y0, x1, y1) ==
  [null |-> FALSE, xmin |-> x0 * Scale, ymin |-> y0 * Scale,
   xmax |-> x1 * Scale, ymax |-> y1 * Scale]

NullGeometry == [null |-> TRUE, xmin |-> 0, ymin |-> 0, xmax |-> 0, ymax |-> 0]

(* A boundary file: readable or not, its coordinate system, its features *)
GeoSquare ==
  [readable |-> TRUE, crs |-> "EPSG:4326", features |-> <<Rect(10, 20, 11, 21)>>]

GeoTwoParts ==
  [readable |-> TRUE, crs |-> "EPSG:4326",
   features |-> <<Rect(10, 20, 11, 21), Rect(11, 20, 12, 21)>>]

GeoEmpty ==
  [readable |-> TRUE, crs |-> "EPSG:4326", features |-> <<NullGeometry>>]

GeoMalformed == [readable |-> FALSE, crs |-> "None", features |-> <<>>]

(* The uploaded boundary files of the model, by name *)
GeoFiles == {"square.geojson", "two_parts.geojson", "empty.geojson", "malformed.geojson"}

GeoContent(name) ==
  CASE name = "square.geojson" -> GeoSquare
    [] name = "two_parts.geojson" -> GeoTwoParts
    [] name = "empty.geojson" -> GeoEmpty
    [] name = "malformed.geojson" -> GeoMalformed

(* st.file_uploader returns None while nothing is uploaded *)
NoGeoFile == "None"

NoCsvFile == "None"

(* ---------------------------------------------------------------------- *)
(* Step 2: loading                                                         *)
(* ---------------------------------------------------------------------- *)

ReadError == [error |-> TRUE, crs |-> "None", geometry |-> <<>>]

(* gpd.read_file followed by to_crs / set_crs (EPSG:4326 either way; the  *)
(* files of the model are in longitude/latitude already).                 *)
LoadGeoJSON(name) ==
  LET file == GeoContent(name)
  IN
  IF ~file.readable THEN ReadError
  ELSE LET gdf == [error |-> FALSE, crs |-> file.crs, geometry |-> file.features]
       IN  IF gdf.crs # "None"
           THEN [gdf EXCEPT !.crs = "EPSG:4326"]
           ELSE [gdf EXCEPT !.crs = "EPSG:4326"]

CsvError == [error |-> TRUE, columns |-> <<>>, rows |-> <<>>]

PadTo(fields, n) ==
  [i \in 1..n |-> IF i <= Len(fields) THEN fields[i] ELSE NA]

(* pd.read_csv(csv_file, sep=sep, dtype=str): the first line names the    *)
(* columns, every other line is a row of texts; a field that is one of    *)
(* the NA texts is a missing value; a short row is padded with missing    *)
(* values.  A file without any line raises EmptyDataError.                 *)
read_csv(name, separator) ==
  LET file == CsvContent(name)
  IN
  IF file = <<>> THEN CsvError
  ELSE LET header == Split(file[1], separator)
           row(i) == LET f == PadTo(Split(file[i + 1], separator), Len(header))
                     IN  [j \in 1..Len(header) |->
                            IF f[j] \in NaTexts THEN NA ELSE f[j]]
       IN  [error |-> FALSE, columns |-> header,
            rows |-> [i \in 1..(Len(file) - 1) |-> row(i)]]

(* ---------------------------------------------------------------------- *)
(* Step 2, "Run Analysis": cleaning                                        *)
(* ---------------------------------------------------------------------- *)

(* clean_coord with "except: return 0.0" *)
clean_coord_zero_default(val) ==
  IF val = NA THEN NaN
  ELSE LET r == ParseFloat(Replace(Strip(val), ",", "."))
       IN  IF r.kind = "error" THEN Num(0) ELSE r

(* clean_coord(val) *)
clean_coord(val) ==
  IF val = NA THEN NaN
  ELSE LET r == ParseFloat(Replace(Strip(val), ",", "."))
       IN  IF r.kind = "error" THEN NaN ELSE r

(* Position of column name col in the frame *)
ColIndex(df, col) == CHOOSE j \in 1..Len(df.columns) : df.columns[j] = col

(* ---------------------------------------------------------------------- *)
(* Step 2, "Run Analysis": categories                                      *)
(* ---------------------------------------------------------------------- *)

LonMax == 180

LatMax == 90

(* Series == 0 : False for NaN and for the infinities *)
IsZero(f) == f.kind = "num" /\ f.v = 0

(* between(lo, hi, inclusive="neither") *)
between_exclusive(f, lo, hi) ==
  f.kind = "num" /\ lo * Scale < f.v /\ f.v < hi * Scale

(* Series.between(lo, hi), both ends included; False for NaN *)
between(f, lo, hi) == f.kind = "num" /\ lo * Scale <= f.v /\ f.v <= hi * Scale

notna(f) == f.kind # "nan"

zero_mask(x, y) == IsZero(x) /\ IsZero(y)

valid_range_mask(x, y) ==
  between(x, 0 - LonMax, LonMax) /\ between(y, 0 - LatMax, LatMax)

valid_mask(x, y) ==
  valid_range_mask(x, y) /\ ~zero_mask(x, y) /\ notna(x) /\ notna(y)

(* The cleaned coordinates of row i (1-based) of the frame *)
CleanX(df, x_name, i) == clean_coord(df.rows[i][ColIndex(df, x_name)])

CleanY(df, y_name, i) == clean_coord(df.rows[i][ColIndex(df, y_name)])

(* A selection that returns the matching positions last to first *)
RECURSIVE MaskSelectReversed(_, _)
MaskSelectReversed(n, mask) ==
  IF n = 0 THEN <<>>
  ELSE IF mask[n] THEN <<n>> \o MaskSelectReversed(n - 1, mask)
  ELSE MaskSelectReversed(n - 1, mask)

(* Boolean-mask indexing df[mask]: the positions 1..n whose mask is set,  *)
(* in the order of the frame.                                             *)
RECURSIVE MaskSelect(_, _)
MaskSelect(n, mask) ==
  IF n = 0 THEN <<>>
  ELSE IF mask[n] THEN Append(MaskSelect(n - 1, mask), n)
  ELSE MaskSelect(n - 1, mask)

ZeroMaskOf(df, x_name, y_name) ==
  [i \in 1..Len(df.rows) |->
     zero_mask(CleanX(df, x_name, i), CleanY(df, y_name, i))]

ValidMaskOf(df, x_name, y_name) ==
  [i \in 1..Len(df.rows) |->
     valid_mask(CleanX(df, x_name, i), CleanY(df, y_name, i))]

(* df_valid = df_clean[valid_mask]: index label (0-based), the row and    *)
(* the two cleaned coordinates.                                           *)
df_valid(df, x_name, y_name) ==
  LET sel == MaskSelect(Len(df.rows), ValidMaskOf(df, x_name, y_name))
  IN  [k \in 1..Len(sel) |->
         [idx |-> sel[k] - 1, row |-> df.rows[sel[k]],
          x |-> CleanX(df, x_name, sel[k]).v, y |-> CleanY(df, y_name, sel[k]).v]]

(* df_zero = df[zero_mask]: rows of the original frame *)
df_zero(df, x_name, y_name) ==
  LET sel == MaskSelect(Len(df.rows), ZeroMaskOf(df, x_name, y_name))
  IN  [k \in 1..Len(sel) |-> [idx |-> sel[k] - 1, row |-> df.rows[sel[k]]]]

(* df[~valid_mask]: the zero rows are not taken out *)
df_invalid_not_valid(df, x_name, y_name) ==
  LET vm == ValidMaskOf(df, x_name, y_name)
      sel == MaskSelect(Len(df.rows), [i \in 1..Len(df.rows) |-> ~vm[i]])
  IN  [k \in 1..Len(sel) |-> [idx |-> sel[k] - 1, row |-> df.rows[sel[k]]]]

(* df_invalid = df[~(valid_mask | zero_mask)] *)
df_invalid(df, x_name, y_name) ==
  LET vm == ValidMaskOf(df, x_name, y_name)
      zm == ZeroMaskOf(df, x_name, y_name)
      sel == MaskSelect(Len(df.rows),
                        [i \in 1..Len(df.rows) |-> ~(vm[i] \/ zm[i])])
  IN  [k \in 1..Len(sel) |-> [idx |-> sel[k] - 1, row |-> df.rows[sel[k]]]]

(* ---------------------------------------------------------------------- *)
(* Step 2, "Run Analysis": spatial join                                    *)
(* ---------------------------------------------------------------------- *)

(* gdf_polygon.unary_union: the union of all geometries of the frame,     *)
(* kept as the set of its non-null parts; the empty set is the empty      *)
(* geometry.                                                              *)
unary_union(gdf) ==
  { gdf.geometry[i] : i \in { j \in 1..Len(gdf.geometry) : ~gdf.geometry[j].null } }

(* The part covers the points next to (px, py) in direction (sx, sy) *)
CoversToward(r, px, py, sx, sy) ==
  /\ IF sx > 0 THEN r.xmin <= px /\ px < r.xmax ELSE r.xmin < px /\ px <= r.xmax
  /\ IF sy > 0 THEN r.ymin <= py /\ py < r.ymax ELSE r.ymin < py /\ py <= r.ymax

(* union.covers(point): the boundary of the union counts as inside *)
within_closed(px, py, union) ==
  \E r \in union :
    r.xmin <= px /\ px <= r.xmax /\ r.ymin <= py /\ py <= r.ymax

(* Point.within(union): the point lies in the interior of the union; a    *)
(* point on the boundary of the union is not within it.  For axis-parallel *)
(* parts the interior is where all four diagonal directions are covered.  *)
within(px, py, union) ==
  \A sx \in {-1, 1} : \A sy \in {-1, 1} :
    \E r \in union : CoversToward(r, px, py, sx, sy)

(* .map({True: 'Inside'}): False has no entry and maps to NaN *)
location_status_unmapped(px, py, union) ==
  IF within(px, py, union) THEN "Inside" ELSE "nan"

(* .map({True: 'Inside', False: 'Outside'}) *)
location_status(px, py, union) ==
  IF within(px, py, union) THEN "Inside" ELSE "Outside"

(* gdf_points: df_valid with the location_status column *)
gdf_points(valid, union) ==
  [k \in 1..Len(valid) |->
     [idx |-> valid[k].idx, row |-> valid[k].row, x |-> valid[k].x,
      y |-> valid[k].y,
      location_status |-> location_status(valid[k].x, valid[k].y, union)]]

NoValidData == "No valid data found (check if all your data is 0,0 or invalid)."

(* st.session_state.results before the first analysis *)
NoResults == [kind |-> "none"]

(* The local polygon_union while line 113 was not executed *)
Unbound == [bound |-> FALSE]

(* The body with "if df_valid is not None" for "if not df_valid.empty" *)
AnalysisAlwaysJoin(gdf_polygon, df, x_name, y_name) ==
  LET valid == df_valid(df, x_name, y_name)
      polygon_union == unary_union(gdf_polygon)
  IN  [polygon_union |-> [bound |-> TRUE, parts |-> polygon_union],
       results |->
         [kind |-> "bundle",
          gdf_points |-> gdf_points(valid, polygon_union),
          df_invalid |-> df_invalid(df, x_name, y_name),
          df_zero |-> df_zero(df, x_name, y_name),
          df_raw_len |-> Len(df.rows),
          x_col |-> x_name, y_col |-> y_name]]

(* The body of "if st.button('Run Analysis')": the value it stores in     *)
(* st.session_state.results, and its local polygon_union.                 *)
Analysis(gdf_polygon, df, x_name, y_name) ==
  LET valid == df_valid(df, x_name, y_name)
  IN  IF valid # <<>>
      THEN LET polygon_union == unary_union(gdf_polygon)
           IN  [polygon_union |-> [bound |-> TRUE, parts |-> polygon_union],
                results |->
                  [kind |-> "bundle",
                   gdf_points |-> gdf_points(valid, polygon_union),
                   df_invalid |-> df_invalid(df, x_name, y_name),
                   df_zero |-> df_zero(df, x_name, y_name),
                   df_raw_len |-> Len(df.rows),
                   x_col |-> x_name, y_col |-> y_name]]
      ELSE [polygon_union |-> Unbound,
            results |-> [kind |-> "error", error |-> NoValidData]]

(* ---------------------------------------------------------------------- *)
(* The script as a state machine                                           *)
(* ---------------------------------------------------------------------- *)

VARIABLES
  geojson_file,   \* the file in uploader 1, or NoGeoFile
  csv_file,       \* the file in uploader 2, or NoCsvFile
  sep,            \* the column separator the script computes (lines 22-34)
  x_col,          \* selection of "Select X Column (Longitude)", or NoColumn
  y_col,          \* selection of "Select Y Column (Latitude)", or NoColumn
  results,        \* st.session_state.results
  rendered,       \* what the latest execution of the script put on the page
  run,            \* history: the latest "Run Analysis" (its inputs, its
                  \* local polygon_union, what it replaced in results)
  first           \* history: inputs and stored result of the first analysis

vars == <<geojson_file, csv_file, sep, x_col, y_col, results, rendered, run, first>>

(* Step 1.5: the separator each option of the select box stands for *)
SepOf(sep_option, custom) ==
  IF sep_option = "Comma (,)" THEN ","
  ELSE IF sep_option = "Semicolon (;)" THEN ";"
  ELSE IF sep_option = "Tab (\\t)" THEN "\t"
  ELSE IF sep_option = "Pipe (|)" THEN "|"
  ELSE custom

(* The options of the select box (line 25) *)
SepOptions ==
  {"Comma (,)", "Semicolon (;)", "Tab (\\t)", "Pipe (|)", "Custom"}

(* Texts typed into "Enter Custom Delimiter" *)
CustomTexts == {",", ";"}

Seps == { SepOf(o, c) : o \in SepOptions, c \in CustomTexts }

(* The frames and boundaries of the model's files, computed once *)
FrameTable == [c \in CsvFiles, s \in Seps |-> read_csv(c, s)]

BoundaryTable == [g \in GeoFiles |-> LoadGeoJSON(g)]

Boundary(g) == BoundaryTable[g]

Frame(c, s) == IF c = NoCsvFile THEN CsvError ELSE FrameTable[c, s]

(* The script reaches "Configure Coordinates" (line 62): both files are   *)
(* uploaded and both were read without an exception.                       *)
Loaded(g, c, s) ==
  /\ g # NoGeoFile /\ c # NoCsvFile
  /\ ~Boundary(g).error
  /\ ~Frame(c, s).error

NoColumn == <<"<none>">>

(* columns = df.columns.tolist() *)
Columns(c, s) == { Frame(c, s).columns[j] : j \in 1..Len(Frame(c, s).columns) }

(* The select boxes' defaults: index=0, and index=1 if len(columns) > 1 *)
DefaultX(c, s) == Frame(c, s).columns[1]

DefaultY(c, s) ==
  LET columns == Frame(c, s).columns
  IN  columns[IF Len(columns) > 1 THEN 2 ELSE 1]

(* A select box keeps its selection while it is rendered with the same    *)
(* options; rendered with other options, or after not being rendered, it  *)
(* shows its default.                                                     *)
SameOptions(g, c, s) ==
  /\ Loaded(geojson_file, csv_file, sep) /\ Loaded(g, c, s)
  /\ Frame(csv_file, sep).columns = Frame(c, s).columns

NextX(g, c, s) ==
  IF ~Loaded(g, c, s) THEN NoColumn
  ELSE IF SameOptions(g, c, s) THEN x_col ELSE DefaultX(c, s)

NextY(g, c, s) ==
  IF ~Loaded(g, c, s) THEN NoColumn
  ELSE IF SameOptions(g, c, s) THEN y_col ELSE DefaultY(c, s)

(* Every combination of inputs "Run Analysis" can be pressed with *)
RunInputs ==
  UNION { { <<g, c, s, x, y>> : x \in Columns(c, s), y \in Columns(c, s) } :
          <<g, c, s>> \in { t \in GeoFiles \X CsvFiles \X Seps :
                             Loaded(t[1], t[2], t[3]) } }

AnalysisTable ==
  [i \in RunInputs |-> Analysis(Boundary(i[1]), Frame(i[2], i[3]), i[4], i[5])]

MarkerLimit == 2000

(* Step 3: what the script displays, given the widgets and the stored     *)
(* result.  The map shows the boundary loaded in this execution and the   *)
(* points of the stored result.                                           *)
Render(g, c, s, res) ==
  IF g = NoGeoFile \/ c = NoCsvFile THEN [kind |-> "uploaders"]
  ELSE IF Boundary(g).error THEN [kind |-> "Error reading GeoJSON"]
  ELSE IF Frame(c, s).error THEN [kind |-> "Error reading CSV"]
  ELSE IF res.kind = "none" THEN [kind |-> "configure"]
  ELSE IF res.kind = "error" THEN [kind |-> "error", error |-> res.error]
  ELSE LET pts == res.gdf_points
           outside == SelectSeq(pts, LAMBDA p : p.location_status = "Outside")
       IN  [kind |-> "tabs",
            map_polygon |-> Boundary(g).geometry,
            markers |-> IF Len(pts) < MarkerLimit
                        THEN [k \in 1..Len(pts) |->
                                [location |-> <<pts[k].y, pts[k].x>>,
                                 status |-> pts[k].location_status]]
                        ELSE <<>>,
            outside_points |-> outside,
            df_zero |-> res.df_zero,
            df_invalid |-> res.df_invalid,
            total_rows |-> res.df_raw_len,
            valid_rows |-> Len(pts),
            zero_rows |-> Len(res.df_zero),
            invalid_rows |-> Len(res.df_invalid),
            outside_boundary |-> Len(outside)]

NoRun == [ran |-> FALSE]

(* first: nothing recorded yet / recording switched off *)
NoFirst == [set |-> FALSE, recording |-> TRUE]

NotRecording == [set |-> FALSE, recording |-> FALSE]

(* The locals of "Run Analysis" (lines 78-106) for every combination of   *)
(* inputs, computed once: the three frames and len(df).                   *)
LocalsTable ==
  [i \in RunInputs |->
     LET df == Frame(i[2], i[3])
         valid == df_valid(df, i[4], i[5])
     IN  [df_valid |-> valid,
          df_zero |-> df_zero(df, i[4], i[5]),
          df_invalid |-> df_invalid(df, i[4], i[5]),
          df_len |-> Len(df.rows)]]

(* The locals of the latest "Run Analysis" *)
Locals == LocalsTable[run.inputs]

InitWidgets ==
  /\ geojson_file = NoGeoFile
  /\ csv_file = NoCsvFile
  /\ sep = ","
  /\ x_col = NoColumn
  /\ y_col = NoColumn
  /\ results = NoResults
  /\ rendered = Render(NoGeoFile, NoCsvFile, ",", NoResults)
  /\ run = NoRun

Init == InitWidgets /\ first = NotRecording

InitRerun == InitWidgets /\ first = NoFirst

(* One execution of the script without the button pressed *)
Rerun(g, c, s, x, y) ==
  /\ geojson_file' = g
  /\ csv_file' = c
  /\ sep' = s
  /\ x_col' = x
  /\ y_col' = y
  /\ rendered' = Render(g, c, s, results)
  /\ UNCHANGED <<results, run, first>>

(* A file is put into, replaced in or removed from uploader 1 *)
UploadGeoJSON(f) ==
  /\ f # geojson_file
  /\ Rerun(f, csv_file, sep, NextX(f, csv_file, sep), NextY(f, csv_file, sep))

(* A file is put into, replaced in or removed from uploader 2; without a  *)
(* file the separator select box is not rendered and sep is ","           *)
UploadCSV(f) ==
  /\ f # csv_file
  /\ LET s == IF f = NoCsvFile THEN "," ELSE sep
     IN  Rerun(geojson_file, f, s, NextX(geojson_file, f, s),
               NextY(geojson_file, f, s))

(* Another separator is chosen in "CSV Settings" *)
SelectSeparator(sep_option, custom) ==
  /\ csv_file # NoCsvFile
  /\ LET s == SepOf(sep_option, custom)
     IN  /\ s # sep
         /\ Rerun(geojson_file, csv_file, s, NextX(geojson_file, csv_file, s),
                  NextY(geojson_file, csv_file, s))

(* Another column is chosen in one of the two select boxes *)
SelectX(col) ==
  /\ Loaded(geojson_file, csv_file, sep)
  /\ col \in Columns(csv_file, sep) /\ col # x_col
  /\ Rerun(geojson_file, csv_file, sep, col, y_col)

SelectY(col) ==
  /\ Loaded(geojson_file, csv_file, sep)
  /\ col \in Columns(csv_file, sep) /\ col # y_col
  /\ Rerun(geojson_file, csv_file, sep, x_col, col)

Inputs == <<geojson_file, csv_file, sep, x_col, y_col>>

(* An assignment that extends the points already stored *)
StoreMerged(new) ==
  IF results.kind = "bundle" /\ new.kind = "bundle"
  THEN [new EXCEPT !.gdf_points = results.gdf_points \o new.gdf_points]
  ELSE new

(* The assignment to st.session_state.results (lines 117 and 126) *)
Store(new) == new

(* "Run Analysis" is pressed: the script runs with the button True, stores *)
(* the analysis and renders it.                                           *)
RunAnalysis ==
  /\ Loaded(geojson_file, csv_file, sep)
  /\ LET new == Store(AnalysisTable[Inputs].results)
     IN  /\ results' = new
         /\ rendered' = Render(geojson_file, csv_file, sep, new)
         /\ run' = [ran |-> TRUE, inputs |-> Inputs,
                    polygon_union |-> AnalysisTable[Inputs].polygon_union,
                    replaced |-> IF results.kind = "none" THEN "nothing"
                                 ELSE IF results = new THEN "same"
                                 ELSE "different"]
         /\ first' = IF first = NoFirst
                     THEN [set |-> TRUE, recording |-> TRUE,
                           inputs |-> Inputs, results |-> new]
                     ELSE first
  /\ UNCHANGED <<geojson_file, csv_file, sep, x_col, y_col>>

(* The interactions, with the files drawn from the sets G and C *)
Interact(G, C) ==
  \/ \E f \in G \cup {NoGeoFile} : UploadGeoJSON(f)
  \/ \E f \in C \cup {NoCsvFile} : UploadCSV(f)
  \/ \E o \in SepOptions, c \in CustomTexts : SelectSeparator(o, c)
  \/ \E col \in Columns(csv_file, sep) : SelectX(col)
  \/ \E col \in Columns(csv_file, sep) : SelectY(col)
  \/ RunAnalysis

Next == Interact(GeoFiles, CsvFiles)

Spec == Init /\ [][Next]_vars

(* The same program with the first analysis of the session recorded, the  *)
(* user uploading the files of one project only.                          *)
RerunGeoFiles == {"square.geojson", "two_parts.geojson"}

RerunCsvFiles == {"scenario.csv"}

NextRerun == Interact(RerunGeoFiles, RerunCsvFiles)

SpecRerun == InitRerun /\ [][NextRerun]_vars

(* ---------------------------------------------------------------------- *)
(* Properties                                                              *)
(* ---------------------------------------------------------------------- *)

IdxSet(part) == { part[k].idx : k \in 1..Len(part) }

IdxSeq(part) == [k \in 1..Len(part) |-> part[k].idx]

(* The frame the latest analysis ran on, and its cleaned coordinates *)
RunFrame == Frame(run.inputs[2], run.inputs[3])

RunX(i) == CleanX(RunFrame, run.inputs[4], i)

RunY(i) == CleanY(RunFrame, run.inputs[5], i)

(* Three frames hold every index label 0..n-1 exactly once *)
IsPartition(valid, zero, invalid, n) ==
  /\ IdxSet(valid) \cup IdxSet(zero) \cup IdxSet(invalid) = 0..(n - 1)
  /\ IdxSet(valid) \cap IdxSet(zero) = {}
  /\ IdxSet(valid) \cap IdxSet(invalid) = {}
  /\ IdxSet(zero) \cap IdxSet(invalid) = {}
  /\ Len(valid) + Len(zero) + Len(invalid) = n

(* C1: after every analysis each record of the frame is in exactly one of *)
(* df_valid, df_zero, df_invalid; the same holds of the three frames of a *)
(* stored bundle, whose sizes add up to the stored df_raw_len = len(df),  *)
(* and the four metrics rendered add up likewise.                         *)
C1_PartitionTotalExclusive ==
  run.ran =>
    /\ IsPartition(Locals.df_valid, Locals.df_zero, Locals.df_invalid,
                   Len(RunFrame.rows))
    /\ results.kind = "bundle" =>
         /\ results.df_raw_len = Len(RunFrame.rows)
         /\ IsPartition(results.gdf_points, results.df_zero,
                        results.df_invalid, results.df_raw_len)
    /\ rendered.kind = "tabs" =>
         rendered.valid_rows + rendered.zero_rows + rendered.invalid_rows
           = rendered.total_rows

C1_Witness ==
  /\ run.ran /\ results.kind = "bundle" /\ rendered.kind = "tabs"
  /\ results.gdf_points # <<>> /\ results.df_zero # <<>>
  /\ results.df_invalid # <<>>

(* The category the rule order of the specification gives a cleaned pair *)
RuleCategory(x, y) ==
  IF x.kind = "nan" \/ y.kind = "nan" THEN "Invalid"
  ELSE IF x = Num(0) /\ y = Num(0) THEN "Zero"
  ELSE IF /\ x.kind = "num" /\ y.kind = "num"
          /\ (0 - 180) * Scale <= x.v /\ x.v <= 180 * Scale
          /\ (0 - 90) * Scale <= y.v /\ y.v <= 90 * Scale THEN "Valid"
  ELSE "Invalid"

(* C2: every record of an analysis lies in the frame the rule order names: *)
(* a pair with a NaN axis in df_invalid, else the pair (0, 0) in df_zero,  *)
(* else a pair within [-180, 180] x [-90, 90], ends included, in df_valid, *)
(* every other pair in df_invalid.                                         *)
C2_RuleOrder ==
  run.ran =>
    \A i \in 1..Len(RunFrame.rows) :
      LET cat == RuleCategory(RunX(i), RunY(i))
      IN  /\ (cat = "Valid") <=> (i - 1) \in IdxSet(Locals.df_valid)
          /\ (cat = "Zero") <=> (i - 1) \in IdxSet(Locals.df_zero)
          /\ (cat = "Invalid") <=> (i - 1) \in IdxSet(Locals.df_invalid)

(* decimal_comma.csv read with ";": (180, 90), (-180, -90) and (0, 45.5)  *)
(* are valid, (0, 0) is zero, (180.0001, 0) and (NaN, 1.5) are invalid     *)
C2_Witness ==
  /\ run.ran
  /\ run.inputs[2] = "decimal_comma.csv" /\ run.inputs[3] = ";"
  /\ run.inputs[4] = <<"l", "o", "n">>
  /\ run.inputs[5] = <<"l", "a", "t", ",", "n">>
  /\ RunX(3) = Num(180 * Scale) /\ RunY(3) = Num(90 * Scale)
  /\ RunX(9) = Num((0 - 180) * Scale) /\ RunY(9) = Num((0 - 90) * Scale)
  /\ RunX(10) = Num(0) /\ RunY(10) # Num(0)
  /\ {2, 8, 9} \subseteq IdxSet(Locals.df_valid)
  /\ RunX(2) = Num(0) /\ RunY(2) = Num(0) /\ 1 \in IdxSet(Locals.df_zero)
  /\ RunX(4) = Num(180 * Scale + Scale \div 10000) /\ RunX(5) = NaN
  /\ {3, 4} \subseteq IdxSet(Locals.df_invalid)

(* C3: in a stored bundle every record of gdf_points has the column       *)
(* location_status with the value Inside or Outside, and no record of     *)
(* df_zero or df_invalid has that column.                                 *)
C3_StatusOnlyOnValid ==
  results.kind = "bundle" =>
    /\ \A k \in 1..Len(results.gdf_points) :
         /\ "location_status" \in DOMAIN results.gdf_points[k]
         /\ results.gdf_points[k].location_status \in {"Inside", "Outside"}
    /\ \A k \in 1..Len(results.df_zero) :
         "location_status" \notin DOMAIN results.df_zero[k]
    /\ \A k \in 1..Len(results.df_invalid) :
         "location_status" \notin DOMAIN results.df_invalid[k]

C3_Witness ==
  /\ results.kind = "bundle"
  /\ \E k \in 1..Len(results.gdf_points) :
       results.gdf_points[k].location_status = "Inside"
  /\ \E k \in 1..Len(results.gdf_points) :
       results.gdf_points[k].location_status = "Outside"
  /\ results.df_zero # <<>> /\ results.df_invalid # <<>>

(* The end-to-end scenario: scenario.csv read with ",", columns x and y,  *)
(* against the square (10,20)-(11,21).                                    *)
ScenarioInputs == <<"square.geojson", "scenario.csv", ",", <<"x">>, <<"y">> >>

StatusSeq(points) ==
  [k \in 1..Len(points) |-> <<points[k].idx, points[k].location_status>>]

ScenarioOutcome(status3) ==
  /\ results.kind = "bundle"
  /\ IdxSeq(results.df_zero) = <<0>>
  /\ IdxSeq(results.df_invalid) = <<1, 2>>
  /\ StatusSeq(results.gdf_points) = << <<3, status3>>, <<4, "Inside">> >>
  /\ results.df_raw_len = 5

(* C4 as stated: the scenario yields Zero = {row0}, Invalid = {row1,      *)
(* row2}, Valid = {row3 Inside, row4 Inside}, total = 5.                   *)
C4_Original ==
  (run.ran /\ run.inputs = ScenarioInputs) => ScenarioOutcome("Inside")

(* C4 amended: the scenario yields Zero = {row0}, Invalid = {row1, row2}, *)
(* Valid = {row3 Outside, row4 Inside}, total = 5: row3 is the corner     *)
(* (10, 20) of the square, and a point on the boundary is not within it.  *)
C4_Scenario ==
  (run.ran /\ run.inputs = ScenarioInputs) => ScenarioOutcome("Outside")

C4_Witness ==
  /\ run.ran /\ run.inputs = ScenarioInputs
  /\ rendered.kind = "tabs" /\ rendered.outside_boundary = 1

(* The boundary file cannot serve as a boundary: it is missing, it cannot *)
(* be read, or its geometries have an empty union.                        *)
BoundaryFails(g) ==
  \/ g = NoGeoFile
  \/ Boundary(g).error
  \/ unary_union(Boundary(g)) = {}

(* C5: no analysis classifies records against a boundary that is missing, *)
(* unreadable or empty: with such a boundary the script ends in an error   *)
(* before "Run Analysis" can run.                                         *)
C5_BoundaryFailureIsFatal == run.ran => ~BoundaryFails(run.inputs[1])

(* C6: an analysis whose df_valid is empty (no record at all included)     *)
(* stores the "No valid data found" outcome and leaves polygon_union       *)
(* unbound (no union, no within); an analysis whose df_valid is not empty  *)
(* takes the union and stores a bundle.                                    *)
C6_EmptyValidSkipsJoin ==
  run.ran =>
    IF Locals.df_valid = <<>>
    THEN /\ results = [kind |-> "error", error |-> NoValidData]
         /\ ~run.polygon_union.bound
    ELSE /\ results.kind = "bundle"
         /\ run.polygon_union.bound
         /\ Len(results.gdf_points) = Len(Locals.df_valid)

C6_Witness ==
  /\ run.ran /\ Len(RunFrame.rows) > 0 /\ Locals.df_valid = <<>>
  /\ results.kind = "error" /\ rendered.kind = "error"

(* The text is not a number for float() after strip and replace, or the   *)
(* value is missing.                                                      *)
Unconvertible(val) ==
  \/ val = NA
  \/ ParseFloat(Replace(Strip(val), ",", ".")).kind = "error"

(* C7: clean_coord gives a float (a number, an infinity or NaN) for every *)
(* field of every record, never the ValueError of float(); a record with  *)
(* an unconvertible coordinate field is in df_invalid, and all records of *)
(* the frame are classified.                                              *)
C7_ParseTotal ==
  run.ran =>
    /\ \A i \in 1..Len(RunFrame.rows) :
         /\ RunX(i).kind \in {"num", "inf", "nan"}
         /\ RunY(i).kind \in {"num", "inf", "nan"}
         /\ ( \/ Unconvertible(RunFrame.rows[i][ColIndex(RunFrame, run.inputs[4])])
              \/ Unconvertible(RunFrame.rows[i][ColIndex(RunFrame, run.inputs[5])]) )
            => (i - 1) \in IdxSet(Locals.df_invalid)
    /\ Len(Locals.df_valid) + Len(Locals.df_zero) + Len(Locals.df_invalid)
         = Len(RunFrame.rows)

(* an analysis with a text float() rejects in one record, a missing value *)
(* in another, and valid records after both                               *)
C7_Witness ==
  /\ run.ran /\ results.kind = "bundle"
  /\ \E i, j, k \in 1..Len(RunFrame.rows) :
       LET xi == RunFrame.rows[i][ColIndex(RunFrame, run.inputs[4])]
           xj == RunFrame.rows[j][ColIndex(RunFrame, run.inputs[4])]
       IN  /\ i < k /\ j < k
           /\ xi # NA /\ Unconvertible(xi)
           /\ xj = NA
           /\ (k - 1) \in IdxSet(results.gdf_points)

Increasing(part) ==
  \A j, k \in 1..Len(part) : j < k => part[j].idx < part[k].idx

(* C8: the records of each frame of a stored bundle, and of each frame of *)
(* an analysis, are in the order of the uploaded file (ascending index     *)
(* label).                                                                *)
C8_OrderPreserved ==
  /\ results.kind = "bundle" =>
       /\ Increasing(results.gdf_points)
       /\ Increasing(results.df_zero)
       /\ Increasing(results.df_invalid)
  /\ run.ran =>
       /\ Increasing(Locals.df_valid)
       /\ Increasing(Locals.df_zero)
       /\ Increasing(Locals.df_invalid)

C8_Witness ==
  /\ results.kind = "bundle"
  /\ Len(results.gdf_points) >= 2 /\ Len(results.df_zero) >= 2
  /\ Len(results.df_invalid) >= 2

(* C9: whenever the latest analysis ran on the inputs of the first         *)
(* analysis of the session, the stored result is the one the first        *)
(* analysis stored, whatever was stored in between.                       *)
C9_RerunSameResult ==
  (first.set /\ run.ran /\ run.inputs = first.inputs)
    => results = first.results

(* the first inputs were analysed again while another result was stored *)
C9_Witness ==
  /\ first.set /\ run.ran /\ run.inputs = first.inputs
  /\ run.replaced = "different"

(* C10: a result on the page (the tabs or the "No valid data" message)    *)
(* was computed from the files, separator and columns now selected.       *)
C10_RenderedIsCurrent ==
  rendered.kind \in {"tabs", "error"} => (run.ran /\ run.inputs = Inputs)

====
